---- MODULE Spec2Model ----
(***************************************************************************)
(* The default path operations of the VfsHandler trait                     *)
(* (crates/vfs/src/lib.rs) and the free function path_relative_to.         *)
(*                                                                         *)
(* A path string is a sequence of one-character strings.  The build target *)
(* (cfg!(target_os = "windows")) is the variable target_os: it is fixed by *)
(* Init and never changes.  The std::path operations the code calls        *)
(* (components, is_absolute, join, parent) are modelled on both targets;   *)
(* on Windows only drive prefixes ("a:") are modelled, and the inputs      *)
(* never start with two separators (UNC, verbatim and device prefixes).    *)
(***************************************************************************)
EXTENDS Integers, Sequences, FiniteSets, TLC

VARIABLES target_os, op, arg1, arg2, cur, res

vars == <<target_os, op, arg1, arg2, cur, res>>

(***************************************************************************)
(* Bounds of the input sets.                                               *)
(***************************************************************************)
MaxFromBody == 3
MaxToBody == 3
MaxPathLen == 3
MaxNameLen == 2
MaxItemLen == 4

Targets == {"unix", "windows"}

\* The characters paths are built from: both separator candidates, the dot
\* and a letter.  On unix the backslash is an ordinary name character.
Chars == {"/", "\\", ".", "a"}

DriveLetters == {"a", "b"}

RECURSIVE StrsOfLen(_)
StrsOfLen(n) ==
    IF n = 0 THEN {<< >>}
    ELSE {Append(s, c) : s \in StrsOfLen(n - 1), c \in Chars}

StrsUpTo(n) == UNION {StrsOfLen(k) : k \in 0..n}

(***************************************************************************)
(* Option<T>                                                               *)
(***************************************************************************)
None == [some |-> FALSE, val |-> << >>]

Some(x) == [some |-> TRUE, val |-> x]

\* path[i..] and path[..i] with Rust's 0-based byte offsets
From(s, i) == SubSeq(s, i + 1, Len(s))

Upto(s, i) == SubSeq(s, 1, i)

(***************************************************************************)
(* std::path                                                               *)
(***************************************************************************)
IsWindows == target_os = "windows"

\* std::path::is_separator / is_sep_byte
is_sep_byte(c) == c = "/" \/ (IsWindows /\ c = "\\")

\* std::path::MAIN_SEPARATOR
MAIN_SEPARATOR == IF IsWindows THEN "\\" ELSE "/"

\* Length of the parsed prefix: a drive ("a:") on Windows, nothing on unix.
prefix_len(p) ==
    IF IsWindows /\ Len(p) >= 2 /\ p[1] \in DriveLetters /\ p[2] = ":"
    THEN 2 ELSE 0

has_physical_root(p) ==
    Len(p) > prefix_len(p) /\ is_sep_byte(p[prefix_len(p) + 1])

\* A drive prefix has no implicit root.
has_root(p) == has_physical_root(p)

\* Components::include_cur_dir
include_cur_dir(p) ==
    /\ ~has_root(p)
    /\ LET r == From(p, prefix_len(p))
       IN  /\ Len(r) >= 1
           /\ r[1] = "."
           /\ (Len(r) = 1 \/ is_sep_byte(r[2]))

\* Components::len_before_body
len_before_body(p) ==
    prefix_len(p) + (IF has_physical_root(p) THEN 1 ELSE 0)
                  + (IF include_cur_dir(p) THEN 1 ELSE 0)

\* Path::is_absolute
is_absolute(p) ==
    IF IsWindows THEN has_root(p) /\ prefix_len(p) > 0 ELSE has_root(p)

\* position (0-based) of the first separator of s, or -1
RECURSIVE FindSepFrom(_, _)
FindSepFrom(s, i) ==
    IF i > Len(s) THEN -1
    ELSE IF is_sep_byte(s[i]) THEN i - 1
    ELSE FindSepFrom(s, i + 1)

\* position (0-based) of the last separator of s, or -1
RECURSIVE RFindSepFrom(_, _)
RFindSepFrom(s, i) ==
    IF i < 1 THEN -1
    ELSE IF is_sep_byte(s[i]) THEN i - 1
    ELSE RFindSepFrom(s, i - 1)

RootDir == [kind |-> "RootDir", name |-> << >>]

CurDir == [kind |-> "CurDir", name |-> << >>]

ParentDir == [kind |-> "ParentDir", name |-> << >>]

Normal(n) == [kind |-> "Normal", name |-> n]

Prefix(p) == [kind |-> "Prefix", name |-> p]

\* Components::parse_single_component (no verbatim prefix): the sequence of
\* zero or one component a piece between separators stands for.
parse_single_component(comp) ==
    IF comp = << >> \/ comp = <<".">> THEN << >>
    ELSE IF comp = <<".", ".">> THEN <<ParentDir>>
    ELSE <<Normal(comp)>>

\* The components of a path body, front to back.
RECURSIVE BodyComponents(_)
BodyComponents(s) ==
    IF s = << >> THEN << >>
    ELSE LET i == FindSepFrom(s, 1)
         IN  IF i < 0 THEN parse_single_component(s)
             ELSE parse_single_component(Upto(s, i))
                      \o BodyComponents(From(s, i + 1))

\* Path::components, collected
components(p) ==
    LET pl == prefix_len(p)
        pre == IF pl > 0 THEN <<Prefix(Upto(p, 1))>> ELSE << >>
        root == IF has_physical_root(p) THEN <<RootDir>> ELSE << >>
        curd == IF pl = 0 /\ include_cur_dir(p) THEN <<CurDir>> ELSE << >>
    IN  pre \o root \o curd
            \o BodyComponents(From(p, pl + Len(root) + Len(curd)))

(***************************************************************************)
(* fn path_relative_to(from, to, separator)                                *)
(***************************************************************************)
\* "Find common prefix": what is left of the two peekable iterators
RECURSIVE FindCommonPrefix(_, _)
FindCommonPrefix(from_it, to_it) ==
    IF from_it # << >> /\ to_it # << >> /\ Head(from_it) = Head(to_it)
    THEN FindCommonPrefix(Tail(from_it), Tail(to_it))
    ELSE <<from_it, to_it>>

RECURSIVE PushParents_NoSeparator(_, _)
PushParents_NoSeparator(to_it, separator) ==
    IF to_it = << >> THEN << >>
    ELSE <<".", ".">> \o PushParents_NoSeparator(Tail(to_it), separator)

\* "Remaining components in `to` become `..`"
RECURSIVE PushParents(_, _)
PushParents(to_it, separator) ==
    IF to_it = << >> THEN << >>
    ELSE <<".", ".", separator>> \o PushParents(Tail(to_it), separator)

RECURSIVE PushNormals_AlwaysSeparator(_, _, _)
PushNormals_AlwaysSeparator(from_it, separator, needs_separator) ==
    IF from_it = << >> THEN << >>
    ELSE IF Head(from_it).kind = "Normal"
    THEN <<separator>> \o Head(from_it).name
             \o PushNormals_AlwaysSeparator(Tail(from_it), separator, TRUE)
    ELSE PushNormals_AlwaysSeparator(Tail(from_it), separator, needs_separator)

\* The last loop: the Normal components left in from_it, a separator
\* before each but the first one pushed.
RECURSIVE PushNormals(_, _, _)
PushNormals(from_it, separator, needs_separator) ==
    IF from_it = << >> THEN << >>
    ELSE IF Head(from_it).kind = "Normal"
    THEN (IF needs_separator THEN <<separator>> ELSE << >>)
             \o Head(from_it).name
             \o PushNormals(Tail(from_it), separator, TRUE)
    ELSE PushNormals(Tail(from_it), separator, needs_separator)

path_relative_to_NoRootCheck(from, to, separator) ==
    LET rest == FindCommonPrefix(components(from), components(to))
    IN  Some(PushParents(rest[2], separator)
                 \o PushNormals(rest[1], separator, FALSE))

path_relative_to(from, to, separator) ==
    LET from_it == components(from)
        to_it == components(to)
    IN  IF from_it # << >> /\ to_it # << >> /\ Head(from_it) = Head(to_it)
        THEN LET rest == FindCommonPrefix(Tail(from_it), Tail(to_it))
             IN  Some(PushParents(rest[2], separator)
                          \o PushNormals(rest[1], separator, FALSE))
        ELSE None

(***************************************************************************)
(* trait VfsHandler: the default path operations                           *)
(***************************************************************************)
\* fn separator(&self) -> char
separator == MAIN_SEPARATOR

\* str::strip_suffix(char)
strip_suffix(path, c) ==
    IF Len(path) > 0 /\ path[Len(path)] = c
    THEN Some(Upto(path, Len(path) - 1))
    ELSE None

\* fn strip_separator_suffix(&self, path) -> Option<&str>
strip_separator_suffix(path) ==
    LET result == strip_suffix(path, separator)
    IN  IF IsWindows /\ ~result.some THEN strip_suffix(path, "/") ELSE result

unchecked_abs_path_NoStrip(path) == path

\* fn unchecked_abs_path(&self, path) -> Arc<AbsPath>
unchecked_abs_path(path) ==
    LET new_root_path == strip_separator_suffix(path)
    IN  IF new_root_path.some THEN new_root_path.val ELSE path

\* Path::join(name): PathBuf::push on a copy of the path
PathJoin(self, path) ==
    LET drive_only == prefix_len(self) > 0 /\ prefix_len(self) = Len(self)
        need_sep == /\ Len(self) > 0
                    /\ ~is_sep_byte(self[Len(self)])
                    /\ ~drive_only
    IN  IF is_absolute(path) \/ prefix_len(path) > 0 THEN path
        ELSE IF has_root(path) THEN Upto(self, prefix_len(self)) \o path
        ELSE IF need_sep THEN self \o <<MAIN_SEPARATOR>> \o path
        ELSE self \o path

\* fn join(&self, path: &AbsPath, name: &str) -> Arc<AbsPath>
join(path, name) == unchecked_abs_path(PathJoin(path, name))

\* fn absolute_path(&self, current_dir: &AbsPath, path: &str) -> Arc<AbsPath>
absolute_path(current_dir, path) ==
    IF is_absolute(path) THEN unchecked_abs_path(path)
    ELSE join(current_dir, path)

\* fn is_case_sensitive(&self) -> bool
is_case_sensitive == IsWindows

\* Components::trim_right: drop the trailing pieces that are no component
RECURSIVE trim_right(_, _)
trim_right(s, lbb) ==
    IF Len(s) > lbb
    THEN LET body == From(s, lbb)
             i == RFindSepFrom(body, Len(body))
             comp == IF i < 0 THEN body ELSE From(body, i + 1)
             size == Len(comp) + (IF i < 0 THEN 0 ELSE 1)
         IN  IF parse_single_component(comp) = << >>
             THEN trim_right(Upto(s, Len(s) - size), lbb)
             ELSE s
    ELSE s

\* Path::parent: Components::next_back, then as_path of what is left
PathParent(p) ==
    LET lbb == len_before_body(p)
        s == trim_right(p, lbb)
    IN  IF Len(s) > lbb
        THEN LET body == From(s, lbb)
                 i == RFindSepFrom(body, Len(body))
                 comp == IF i < 0 THEN body ELSE From(body, i + 1)
                 size == Len(comp) + (IF i < 0 THEN 0 ELSE 1)
             IN  Some(trim_right(Upto(s, Len(s) - size), lbb))
        ELSE IF has_physical_root(p) THEN None
        ELSE IF prefix_len(p) > 0 THEN None
        ELSE IF include_cur_dir(p) THEN Some(Upto(s, Len(s) - 1))
        ELSE None

parent_of_absolute_path_StopBelowRoot(path) ==
    LET p == PathParent(path)
    IN  IF p.some /\ Len(p.val) <= len_before_body(path) THEN None ELSE p

\* fn parent_of_absolute_path(&self, path) -> Option<&AbsPath>
parent_of_absolute_path(path) == PathParent(path)

\* str::find(char): the 0-based position of the first occurrence
RECURSIVE FindFrom(_, _, _)
FindFrom(s, c, i) ==
    IF i > Len(s) THEN None
    ELSE IF s[i] = c THEN Some(i - 1)
    ELSE FindFrom(s, c, i + 1)

find(s, c) == FindFrom(s, c, 1)

\* str::rfind(char): the 0-based position of the last occurrence
RECURSIVE RFindFrom(_, _, _)
RFindFrom(s, c, i) ==
    IF i < 1 THEN None
    ELSE IF s[i] = c THEN Some(i - 1)
    ELSE RFindFrom(s, c, i - 1)

rfind(s, c) == RFindFrom(s, c, Len(s))

\* fn split_off_first_item(&self, path) -> (&str, Option<&str>)
split_off_first_item(path) ==
    LET found0 == find(path, separator)
        found_slash == find(path, "/")
        found == IF /\ IsWindows
                    /\ found_slash.some
                    /\ (~found0.some \/ found0.val <= found_slash.val)
                 THEN found_slash
                 ELSE found0
    IN  IF found.some
        THEN <<Upto(path, found.val), Some(From(path, found.val + 1))>>
        ELSE <<path, None>>

\* fn split_off_last_item(&self, path) -> (Option<&str>, &str)
split_off_last_item(path) ==
    LET found0 == rfind(path, separator)
        found_slash == rfind(path, "/")
        found == IF /\ IsWindows
                    /\ found_slash.some
                    /\ (~found0.some \/ found0.val >= found_slash.val)
                 THEN found_slash
                 ELSE found0
    IN  IF found.some
        THEN <<Some(Upto(path, found.val)), From(path, found.val + 1)>>
        ELSE <<None, path>>

(***************************************************************************)
(* NormalizedPath::normalize                                               *)
(* Redundant separators are collapsed, every separator is written as the   *)
(* main separator and a trailing separator below the root is dropped.  The *)
(* inputs are lower case, so case folding changes nothing here.            *)
(***************************************************************************)
RECURSIVE CollapseSeparators(_, _)
CollapseSeparators(s, after_sep) ==
    IF s = << >> THEN << >>
    ELSE IF is_sep_byte(Head(s))
    THEN (IF after_sep THEN << >> ELSE <<MAIN_SEPARATOR>>)
             \o CollapseSeparators(Tail(s), TRUE)
    ELSE <<Head(s)>> \o CollapseSeparators(Tail(s), FALSE)

normalize(path) ==
    LET pl == prefix_len(path)
        c == Upto(path, pl) \o CollapseSeparators(From(path, pl), FALSE)
    IN  IF Len(c) > pl + 1 /\ is_sep_byte(c[Len(c)])
        THEN Upto(c, Len(c) - 1)
        ELSE c

(***************************************************************************)
(* Inputs                                                                  *)
(***************************************************************************)
\* On Windows a path that starts with two separators has a UNC, verbatim or
\* device prefix, which is not modelled.
Modelled(p) ==
    ~(IsWindows /\ Len(p) >= 2 /\ is_sep_byte(p[1]) /\ is_sep_byte(p[2]))

\* What an absolute path starts with.
Roots == IF IsWindows THEN {<<"a", ":", "\\">>} ELSE {<<"/">>}

\* What any path may start with besides the characters of Chars.
Heads ==
    IF IsWindows
    THEN {<< >>, <<"a", ":", "\\">>, <<"b", ":", "\\">>, <<"a", ":">>}
    ELSE {<< >>, <<"/">>}

\* AbsPath values: the absolute paths, and what unchecked_abs_path makes of
\* the root.
FromPaths ==
    {r \o b : r \in Roots, b \in StrsUpTo(MaxFromBody)}
        \cup {unchecked_abs_path(r) : r \in Roots}

ToPaths == {p \in {h \o b : h \in Heads, b \in StrsUpTo(MaxToBody)} : Modelled(p)}

(***************************************************************************)
(* Specification of path_relative_to                                       *)
(***************************************************************************)
InitRel ==
    /\ target_os \in Targets
    /\ op = "start"
    /\ arg1 \in FromPaths
    /\ arg2 = << >>
    /\ cur = None
    /\ res = None

\* VfsHandler::path_relative_to(from, to)
PathRelativeTo ==
    /\ op = "start"
    /\ \E to \in ToPaths :
          /\ arg2' = to
          /\ res' = path_relative_to(arg1, to, separator)
    /\ op' = "path_relative_to"
    /\ UNCHANGED <<target_os, arg1, cur>>

NextRel == PathRelativeTo

SpecRel == InitRel /\ [][NextRel]_vars

(***************************************************************************)
(* Specification of the AbsPath constructors and queries                   *)
(***************************************************************************)
PathInputs ==
    {p \in {h \o b : h \in Heads, b \in StrsUpTo(MaxPathLen)} : Modelled(p)}

NameInputs ==
    {p \in {h \o b : h \in Heads, b \in StrsUpTo(MaxNameLen)} : Modelled(p)}

InitVfs ==
    /\ target_os \in Targets
    /\ op = "start"
    /\ arg1 \in PathInputs
    /\ arg2 = << >>
    /\ cur = None
    /\ res = None

\* unchecked_abs_path(arg1): the caller guarantees an absolute path
UncheckedAbsPath ==
    /\ op = "start"
    /\ is_absolute(arg1)
    /\ cur' = Some(unchecked_abs_path(arg1))
    /\ op' = "unchecked_abs_path"
    /\ UNCHANGED <<target_os, arg1, arg2, res>>

\* join(cur, name)
Join ==
    /\ op = "unchecked_abs_path"
    /\ \E name \in NameInputs :
          /\ arg2' = name
          /\ res' = Some(join(cur.val, name))
    /\ op' = "join"
    /\ UNCHANGED <<target_os, arg1, cur>>

\* absolute_path(cur, path)
AbsolutePath ==
    /\ op = "unchecked_abs_path"
    /\ \E path \in NameInputs :
          /\ arg2' = path
          /\ res' = Some(absolute_path(cur.val, path))
    /\ op' = "absolute_path"
    /\ UNCHANGED <<target_os, arg1, cur>>

\* parent_of_absolute_path(cur)
ParentOfAbsolutePath ==
    /\ op = "unchecked_abs_path"
    /\ res' = parent_of_absolute_path(cur.val)
    /\ op' = "parent_of_absolute_path"
    /\ UNCHANGED <<target_os, arg1, arg2, cur>>

\* is_case_sensitive()
IsCaseSensitive ==
    /\ op = "start"
    /\ res' = Some(is_case_sensitive)
    /\ op' = "is_case_sensitive"
    /\ UNCHANGED <<target_os, arg1, arg2, cur>>

NextVfs ==
    \/ UncheckedAbsPath
    \/ Join
    \/ AbsolutePath
    \/ ParentOfAbsolutePath
    \/ IsCaseSensitive

SpecVfs == InitVfs /\ [][NextVfs]_vars

(***************************************************************************)
(* Specification of split_off_first_item and split_off_last_item           *)
(***************************************************************************)
InitSplit ==
    /\ target_os \in Targets
    /\ op = "start"
    /\ arg1 \in StrsUpTo(MaxItemLen)
    /\ arg2 = << >>
    /\ cur = None
    /\ res = None

SplitOffFirstItem ==
    /\ op = "start"
    /\ res' = Some(split_off_first_item(arg1))
    /\ op' = "split_off_first_item"
    /\ UNCHANGED <<target_os, arg1, arg2, cur>>

SplitOffLastItem ==
    /\ op = "start"
    /\ res' = Some(split_off_last_item(arg1))
    /\ op' = "split_off_last_item"
    /\ UNCHANGED <<target_os, arg1, arg2, cur>>

NextSplit == SplitOffFirstItem \/ SplitOffLastItem

SpecSplit == InitSplit /\ [][NextSplit]_vars

(***************************************************************************)
(* Properties of path_relative_to                                          *)
(***************************************************************************)
Min(a, b) == IF a < b THEN a ELSE b

\* The length of the longest common prefix of two component sequences.
CommonLen(fc, tc) ==
    CHOOSE k \in 0..Min(Len(fc), Len(tc)) :
        /\ SubSeq(fc, 1, k) = SubSeq(tc, 1, k)
        /\ (k = Min(Len(fc), Len(tc)) \/ fc[k + 1] # tc[k + 1])

RECURSIVE Repeat(_, _)
Repeat(seg, n) == IF n <= 0 THEN << >> ELSE seg \o Repeat(seg, n - 1)

IsNormal(c) == c.kind = "Normal"

\* The names of the components cs, joined by sep.
RECURSIVE JoinWith(_, _)
JoinWith(names, sep) ==
    IF names = << >> THEN << >>
    ELSE IF Len(names) = 1 THEN names[1].name
    ELSE names[1].name \o <<sep>> \o JoinWith(Tail(names), sep)

\* The names of the Normal components of cs, joined by sep.
JoinNormals(cs, sep) == JoinWith(SelectSeq(cs, IsNormal), sep)

\* The first components of both paths are present and equal.
SameRoot(from, to) ==
    LET fc == components(from)
        tc == components(to)
    IN  fc # << >> /\ tc # << >> /\ fc[1] = tc[1]

\* C1: for an absolute `from` and a `to` with the same first component,
\* path_relative_to returns a present string: ".." followed by the separator
\* once for every component of `to` after the longest common prefix, then
\* the Normal components of `from` after that prefix joined by the
\* separator.  from == to gives the empty string, and the root relative to
\* a directory right below it gives ".." with the separator kept.
C1_RelativeForm ==
    (op = "path_relative_to" /\ is_absolute(arg1) /\ SameRoot(arg1, arg2)) =>
        LET fc == components(arg1)
            tc == components(arg2)
            k == CommonLen(fc, tc)
        IN  /\ res = Some(Repeat(<<".", ".", separator>>, Len(tc) - k)
                              \o JoinNormals(SubSeq(fc, k + 1, Len(fc)), separator))
            /\ (arg1 = arg2 => res = Some(<< >>))
            /\ (arg1 \in Roots /\ Len(tc) = Len(fc) + 1 /\ k = Len(fc)
                    => res = Some(<<".", ".", separator>>))

\* Both paths go on after a common prefix of two components or more, and
\* `from` ends in a Normal component.
C1_Witness ==
    /\ op = "path_relative_to"
    /\ is_absolute(arg1)
    /\ SameRoot(arg1, arg2)
    /\ LET fc == components(arg1)
           tc == components(arg2)
           k == CommonLen(fc, tc)
       IN  /\ k >= 2
           /\ Len(tc) > k
           /\ Len(fc) > k
           /\ IsNormal(fc[Len(fc)])
    /\ res.some
    /\ Len(res.val) > 3

\* C2: path_relative_to returns None exactly when the first components of
\* `from` and `to` are not both present and equal; in every other case the
\* result is a present string.
C2_NoneIffRootsDiffer ==
    op = "path_relative_to" => (res = None <=> ~SameRoot(arg1, arg2))

\* Both paths have a first component, the two differ, and the result is
\* absent.
C2_Witness ==
    /\ op = "path_relative_to"
    /\ components(arg1) # << >>
    /\ components(arg2) # << >>
    /\ res = None

\* The result is absent for the empty `to` of the root.
C2_WitnessEmptyTo ==
    /\ op = "path_relative_to"
    /\ arg1 \in Roots
    /\ arg2 = << >>
    /\ res = None

RECURSIVE Pieces(_)
Pieces(s) ==
    LET i == FindSepFrom(s, 1)
    IN  IF i < 0 THEN <<s>>
        ELSE <<Upto(s, i)>> \o Pieces(From(s, i + 1))

\* No piece between separators is "." or "..".
NoDotPieces(p) ==
    LET ps == Pieces(From(p, prefix_len(p)))
    IN  \A i \in 1..Len(ps) : ps[i] \notin {<<".">>, <<".", ".">>}

\* The path is written the one canonical way: the root, then names joined
\* by single main separators, no "." or ".." piece.
Clean(p) ==
    /\ NoDotPieces(p)
    /\ LET pc == components(p)
       IN  \E r \in Roots :
              p = r \o JoinNormals(SubSeq(pc, Len(components(r)) + 1, Len(pc)),
                                   MAIN_SEPARATOR)

\* `to` is a proper ancestor of `from`: its components are a proper prefix.
ProperAncestor(to, from) ==
    LET fc == components(from)
        tc == components(to)
    IN  Len(tc) < Len(fc) /\ SubSeq(fc, 1, Len(tc)) = tc

C3_Pre ==
    /\ op = "path_relative_to"
    /\ is_absolute(arg1)
    /\ is_absolute(arg2)
    /\ ProperAncestor(arg2, arg1)
    /\ NoDotPieces(arg2)
    /\ Clean(arg1)

C4_CaseSensitiveExceptWindows ==
    op = "is_case_sensitive" => res = Some(target_os # "windows")

\* The separator characters a path may be split at: the main separator,
\* and '/' too where mixed separators are accepted.
SplitSeparators == {separator} \cup (IF IsWindows THEN {"/"} ELSE {})

SeparatorPositions(path) ==
    {i \in 0..(Len(path) - 1) : path[i + 1] \in SplitSeparators}

MinOf(S) == CHOOSE x \in S : \A y \in S : x <= y

MaxOf(S) == CHOOSE x \in S : \A y \in S : x >= y

\* C5: split_off_first_item splits at the earliest occurrence of either
\* separator: (path[..pos], Some(path[pos+1..])) for the smallest separator
\* position, and (path, None) when the path has no separator.
C5_SplitAtFirstSeparator ==
    op = "split_off_first_item" =>
        IF SeparatorPositions(arg1) = {}
        THEN res = Some(<<arg1, None>>)
        ELSE LET pos == MinOf(SeparatorPositions(arg1))
             IN  res = Some(<<Upto(arg1, pos), Some(From(arg1, pos + 1))>>)

\* C6: split_off_last_item splits at the latest occurrence of either
\* separator: (Some(path[..pos]), path[pos+1..]) for the greatest separator
\* position, and (None, path) when the path has no separator.
C6_SplitAtLastSeparator ==
    op = "split_off_last_item" =>
        IF SeparatorPositions(arg1) = {}
        THEN res = Some(<<None, arg1>>)
        ELSE LET pos == MaxOf(SeparatorPositions(arg1))
             IN  res = Some(<<Some(Upto(arg1, pos)), From(arg1, pos + 1)>>)

\* The path names a root: it has no component below its prefix and root.
IsRootPath(p) ==
    \A i \in 1..Len(components(p)) :
        components(p)[i].kind \in {"Prefix", "RootDir"}

\* The path of something below the root ends in a separator.
CarriesTrailingSeparator(p) ==
    Len(p) > 0 /\ is_sep_byte(p[Len(p)]) /\ ~IsRootPath(p)

\* C7: no AbsPath produced by unchecked_abs_path, join or absolute_path
\* carries a trailing separator, whatever the input string.
C7_NoTrailingSeparator ==
    /\ op = "unchecked_abs_path" => ~CarriesTrailingSeparator(cur.val)
    /\ op \in {"join", "absolute_path"} => ~CarriesTrailingSeparator(res.val)

IsStrictPrefix(q, p) == Len(q) < Len(p) /\ Upto(p, Len(q)) = q

\* C8: parent_of_absolute_path returns None only for a root path, which
\* has no parent; for every other AbsPath it returns the parent path, a
\* strict prefix of the path that names all its components but the last.
C8_ParentOrRoot ==
    op = "parent_of_absolute_path" =>
        /\ res = None <=> IsRootPath(cur.val)
        /\ res.some =>
              /\ IsStrictPrefix(res.val, cur.val)
              /\ components(res.val)
                     = SubSeq(components(cur.val), 1,
                              Len(components(cur.val)) - 1)

\* The parent of a path whose last component follows a run of separators.
C8_Witness ==
    /\ op = "parent_of_absolute_path"
    /\ res.some
    /\ Len(components(cur.val)) >= 3
    /\ Len(cur.val) - Len(res.val) >= 3

\* The root has no parent.
C8_WitnessRoot ==
    /\ op = "parent_of_absolute_path"
    /\ res = None
    /\ cur.val \in Roots

\* C9: absolute_path(current_dir, path) is unchecked_abs_path(path) when
\* path is absolute and join(current_dir, path) otherwise; the result is
\* an absolute path whenever current_dir is one.
C9_AbsolutePathIsAbsolute ==
    op = "absolute_path" =>
        /\ is_absolute(arg2) => res.val = unchecked_abs_path(arg2)
        /\ ~is_absolute(arg2) => res.val = join(cur.val, arg2)
        /\ is_absolute(cur.val) => is_absolute(res.val)

\* C10: for an AbsPath p without a trailing separator, join(p, "") is p.
C10_JoinEmptyName ==
    (/\ op = "join"
     /\ arg2 = << >>
     /\ ~(Len(cur.val) > 0 /\ is_sep_byte(cur.val[Len(cur.val)])))
        => res = cur

\* The empty name joined onto a path below the root.
C10_Witness ==
    /\ op = "join"
    /\ arg2 = << >>
    /\ Len(components(cur.val)) >= 3
    /\ ~is_sep_byte(cur.val[Len(cur.val)])
    /\ res = cur

(***************************************************************************)
(* Arc<T>, Cow<T> and normalize_rc_path                                    *)
(* A shared value is an allocation, named by its id, that holds a value.   *)
(* Two Arcs are the same shared value when their ids are equal; a copy has *)
(* an equal value under another id.                                        *)
(***************************************************************************)
Arc(id, val) == [id |-> id, val |-> val]

\* The id of the allocation unchecked_abs_path makes (AbsPath::new_arc).
FirstAlloc == 1

\* The id of the next allocation made while path is alive.
NextAlloc(path) == path.id + 1

Borrowed == [borrowed |-> TRUE, owned |-> Arc(0, << >>)]

Owned(o) == [borrowed |-> FALSE, owned |-> o]

\* NormalizedPath::normalize: borrows the input when normalization leaves
\* it as it is, and builds a new shared value otherwise.
NormalizedPath_normalize(path, alloc) ==
    IF normalize(path) = path
    THEN Borrowed
    ELSE Owned(Arc(alloc, normalize(path)))

normalize_path(path, alloc) == NormalizedPath_normalize(path, alloc)

\* NormalizedPath::new_arc(path): a cast of the shared value it is given.
NormalizedPath_new_arc(path) == path

normalize_rc_path_AlwaysCopies(path) ==
    Arc(NextAlloc(path), normalize(path.val))

normalize_rc_path(path) ==
    LET cow == normalize_path(path.val, NextAlloc(path))
    IN  IF cow.borrowed
        THEN NormalizedPath_new_arc(path)
        ELSE cow.owned

(***************************************************************************)
(* Specification of normalize_rc_path: an absolute path is made an         *)
(* Arc<AbsPath> by unchecked_abs_path and then normalized.                 *)
(***************************************************************************)
InitNorm ==
    /\ target_os \in Targets
    /\ op = "start"
    /\ arg1 \in PathInputs
    /\ arg2 = << >>
    /\ cur = None
    /\ res = None

NewAbsPathArc ==
    /\ op = "start"
    /\ is_absolute(arg1)
    /\ cur' = Some(Arc(FirstAlloc, unchecked_abs_path(arg1)))
    /\ op' = "new_arc"
    /\ UNCHANGED <<target_os, arg1, arg2, res>>

NormalizeRcPath ==
    /\ op = "new_arc"
    /\ res' = Some(normalize_rc_path(cur.val))
    /\ op' = "normalize_rc_path"
    /\ UNCHANGED <<target_os, arg1, arg2, cur>>

NextNorm == NewAbsPathArc \/ NormalizeRcPath

SpecNorm == InitNorm /\ [][NextNorm]_vars

\* C11: normalize_rc_path returns the very shared value it was given (the
\* same allocation, not a copy) exactly when normalization leaves the path
\* as it is (normalize_path answers Cow::Borrowed), and otherwise returns
\* the newly built shared value that holds the normalized path.
C11_SameArcWhenUnchanged ==
    op = "normalize_rc_path" =>
        LET path == cur.val
            out == res.val
            unchanged == normalize(path.val) = path.val
        IN  /\ normalize_path(path.val, NextAlloc(path)).borrowed <=> unchanged
            /\ unchanged => out = path
            /\ ~unchanged =>
                  /\ out.id # path.id
                  /\ out = normalize_path(path.val, NextAlloc(path)).owned
                  /\ out.val = normalize(path.val)
            /\ out.id = path.id <=> unchanged

\* A path below the root that normalization leaves alone is handed back as
\* the same allocation.
C11_Witness ==
    /\ op = "normalize_rc_path"
    /\ Len(components(cur.val.val)) >= 2
    /\ normalize(cur.val.val) = cur.val.val
    /\ res.val.id = cur.val.id

\* A path with a doubled separator comes back as a new allocation.
C11_WitnessChanged ==
    /\ op = "normalize_rc_path"
    /\ normalize(cur.val.val) # cur.val.val
    /\ res.val.id # cur.val.id
    /\ res.val.val = normalize(cur.val.val)

(***************************************************************************)
(* crates/config/src/searcher.rs: the search for a configuration file      *)
(*                                                                         *)
(* The file system is seen through what the code asks of it.  A candidate  *)
(* file is a record: open says whether File::open succeeds, read whether   *)
(* read_to_string succeeds, mypy what the parser of the mypy part answers  *)
(* for the content ("some": options, "none": no mypy section, "err": the   *)
(* content is rejected) and zuban what the [tool.zuban] table of a         *)
(* pyproject.toml is ("none": absent, "some": applied, "err": rejected).   *)
(***************************************************************************)
PYPROJECT_TOML_NAME == <<"p", "y", "p", "r", "o", "j", "e", "c", "t", ".", "t", "o", "m", "l">>

MYPY_INI_NAME == <<"m", "y", "p", "y", ".", "i", "n", "i">>

DOT_MYPY_INI_NAME == <<".", "m", "y", "p", "y", ".", "i", "n", "i">>

SETUP_CFG_NAME == <<"s", "e", "t", "u", "p", ".", "c", "f", "g">>

CONFIG_PATHS ==
    <<PYPROJECT_TOML_NAME, MYPY_INI_NAME, DOT_MYPY_INI_NAME, SETUP_CFG_NAME>>

\* anyhow::Result<T>
Ok(x) == [ok |-> TRUE, val |-> x]

Err == [ok |-> FALSE, val |-> None]

ends_with(s, suffix) ==
    /\ Len(s) >= Len(suffix)
    /\ From(s, Len(s) - Len(suffix)) = suffix

AbsentFile == [open |-> FALSE, read |-> FALSE, mypy |-> "none", zuban |-> "none"]

UnreadableFile == [open |-> TRUE, read |-> FALSE, mypy |-> "none", zuban |-> "none"]

\* The states of a candidate that is not a pyproject.toml.
IniFiles ==
    {AbsentFile, UnreadableFile}
        \cup {[open |-> TRUE, read |-> TRUE, mypy |-> m, zuban |-> "none"] :
                 m \in {"some", "none", "err"}}

\* The states of a pyproject.toml.
TomlFiles ==
    {AbsentFile, UnreadableFile}
        \cup {[open |-> TRUE, read |-> TRUE, mypy |-> m, zuban |-> z] :
                 m \in {"some", "none", "err"}, z \in {"some", "none", "err"}}

\* The candidates of one directory, by their place in CONFIG_PATHS.
DirContents ==
    {f \in [DOMAIN CONFIG_PATHS -> TomlFiles] :
        \A k \in DOMAIN CONFIG_PATHS :
            CONFIG_PATHS[k] # PYPROJECT_TOML_NAME => f[k] \in IniFiles}

\* ProjectOptions: where the options come from, and whether the
\* [tool.zuban] table has been applied on top of them.
ProjectOptions(origin) == [origin |-> origin, zuban_table |-> FALSE]

FoundConfig(project_options, config_path, most_probable_base) ==
    [project_options |-> project_options,
     config_path |-> config_path,
     most_probable_base |-> most_probable_base]

default_config(config_path, current_dir) ==
    FoundConfig(ProjectOptions("default_for_mode"), config_path, current_dir)

\* ProjectOptions::apply_pyproject_toml_mypy_part, from_pyproject_toml_only
\* and from_mypy_ini: Err for a rejected content, Ok(None) for a content
\* without a mypy section, Ok(Some(options)) otherwise.
ParseMypyPart(content) ==
    IF content.mypy = "err" THEN Err
    ELSE IF content.mypy = "none" THEN Ok(None)
    ELSE Ok(Some(ProjectOptions("parsed")))

apply_pyproject_toml_mypy_part(content) == ParseMypyPart(content)

from_pyproject_toml_only(content) == ParseMypyPart(content)

from_mypy_ini(content) == ParseMypyPart(content)

\* The result is (options, config_path): the diagnostic config is left out.
initialize_config(config_path, content) ==
    LET options == IF ends_with(config_path, <<".", "t", "o", "m", "l">>)
                   THEN from_pyproject_toml_only(content)
                   ELSE from_mypy_ini(content)
    IN  IF options.ok
        THEN Ok([options |-> options.val, config_path |-> config_path])
        ELSE Err

takes_precedence_Never(config_name) == FALSE

\* ["mypy.ini", ".mypy.ini"].contains(config_name)
takes_precedence(config_name) ==
    config_name \in {MYPY_INI_NAME, DOT_MYPY_INI_NAME}

\* The locals of find_mypy_config_file_in_dir before the loop; i is the
\* place of the iterator in CONFIG_PATHS and checked the paths that have
\* been handed to on_check_path.
SearchStart ==
    [i |-> 1, checked |-> << >>, end_result |-> None, pyproject_toml |-> None]

\* One iteration of the loop over CONFIG_PATHS (searcher.rs 122-171).  ctl
\* says how the iteration ends: "continue" with the next candidate, "break"
\* out of the loop, or "err" when the function returns an error.
CheckCandidate(dir, files, st) ==
    LET config_name == CONFIG_PATHS[st.i]
        path == join(dir, config_name)
        file == files[st.i]
        st1 == [st EXCEPT !.i = @ + 1, !.checked = Append(@, path)]
        config_path == absolute_path(dir, config_name)
    IN  IF ~file.open THEN [ctl |-> "continue", st |-> st1]
        ELSE IF ~file.read THEN [ctl |-> "err", st |-> st1]
        ELSE IF config_name = PYPROJECT_TOML_NAME
        THEN LET project_options == apply_pyproject_toml_mypy_part(file)
                 st2 == [st1 EXCEPT !.pyproject_toml = Some(file)]
             IN  IF ~project_options.ok THEN [ctl |-> "err", st |-> st1]
                 ELSE IF project_options.val.some
                 THEN [ctl |-> "break",
                       st |-> [st2 EXCEPT !.end_result =
                                  Some(FoundConfig(project_options.val.val,
                                                   Some(config_path), dir))]]
                 ELSE [ctl |-> "continue", st |-> st2]
        ELSE LET result == initialize_config(config_path, file)
             IN  IF ~result.ok THEN [ctl |-> "err", st |-> st1]
                 ELSE LET project_options ==
                              IF result.val.options.some
                              THEN result.val.options
                              ELSE IF takes_precedence(config_name)
                              THEN Some(ProjectOptions("mypy_default"))
                              ELSE None
                      IN  IF project_options.some
                          THEN [ctl |-> "break",
                                st |-> [st1 EXCEPT !.end_result =
                                           Some(FoundConfig(project_options.val,
                                                Some(result.val.config_path),
                                                dir))]]
                          ELSE [ctl |-> "continue", st |-> st1]

\* The loop is left by a break or when CONFIG_PATHS is exhausted.
LoopLeft(step) ==
    \/ step.ctl = "break"
    \/ step.ctl = "continue" /\ step.st.i > Len(CONFIG_PATHS)

\* After the loop (searcher.rs 172-194): the [tool.zuban] table of a parsed
\* pyproject.toml is applied to what was found, or to the default
\* configuration with the pyproject.toml as config_path.
AfterLoop(dir, st) ==
    IF st.pyproject_toml.some /\ st.pyproject_toml.val.zuban # "none"
    THEN LET found == IF st.end_result.some
                      THEN st.end_result.val
                      ELSE default_config(
                               Some(absolute_path(dir, PYPROJECT_TOML_NAME)),
                               dir)
         IN  IF st.pyproject_toml.val.zuban = "err" THEN Err
             ELSE Ok(Some([found EXCEPT !.project_options.zuban_table = TRUE]))
    ELSE Ok(st.end_result)

RECURSIVE RunSearch(_, _, _)
RunSearch(dir, files, st) ==
    LET step == CheckCandidate(dir, files, st)
    IN  IF step.ctl = "err" THEN Err
        ELSE IF LoopLeft(step) THEN AfterLoop(dir, step.st)
        ELSE RunSearch(dir, files, step.st)

find_mypy_config_file_in_dir(dir, files) == RunSearch(dir, files, SearchStart)

(***************************************************************************)
(* Specification of find_mypy_config_file_in_dir, one loop iteration at a  *)
(* time.  arg1 is dir, arg2 the candidates of dir, cur the locals and res  *)
(* the returned value.                                                     *)
(***************************************************************************)
MaxDirLen == 1

\* The directories searched: every AbsPath that unchecked_abs_path makes
\* of a short absolute path.
DirInputs ==
    {unchecked_abs_path(p) :
        p \in {q \in PathInputs : is_absolute(q)
                                  /\ Len(q) <= len_before_body(q) + MaxDirLen}}

InitFind ==
    /\ target_os \in Targets
    /\ op = "for_config_name"
    /\ arg1 \in DirInputs
    /\ arg2 \in DirContents
    /\ cur = Some(SearchStart)
    /\ res = None

\* An iteration after which the loop goes on.
NextCandidate ==
    /\ op = "for_config_name"
    /\ LET step == CheckCandidate(arg1, arg2, cur.val)
       IN  /\ step.ctl = "continue"
           /\ ~LoopLeft(step)
           /\ cur' = Some(step.st)
    /\ UNCHANGED <<target_os, op, arg1, arg2, res>>

\* An iteration that leaves the loop.
LeaveLoop ==
    /\ op = "for_config_name"
    /\ LET step == CheckCandidate(arg1, arg2, cur.val)
       IN  /\ LoopLeft(step)
           /\ cur' = Some(step.st)
    /\ op' = "after_loop"
    /\ UNCHANGED <<target_os, arg1, arg2, res>>

\* An iteration that returns an error.
Bail ==
    /\ op = "for_config_name"
    /\ LET step == CheckCandidate(arg1, arg2, cur.val)
       IN  /\ step.ctl = "err"
           /\ cur' = Some(step.st)
    /\ res' = Some(Err)
    /\ op' = "find_mypy_config_file_in_dir"
    /\ UNCHANGED <<target_os, arg1, arg2>>

ReturnEndResult ==
    /\ op = "after_loop"
    /\ res' = Some(AfterLoop(arg1, cur.val))
    /\ op' = "find_mypy_config_file_in_dir"
    /\ UNCHANGED <<target_os, arg1, arg2, cur>>

NextFind == NextCandidate \/ LeaveLoop \/ Bail \/ ReturnEndResult

SpecFind == InitFind /\ [][NextFind]_vars

\* The place of a candidate name in the order of examination.
PlaceOf(config_name) ==
    CHOOSE k \in DOMAIN CONFIG_PATHS : CONFIG_PATHS[k] = config_name

\* Candidate k can be opened and read.
Readable(files, k) == files[k].open /\ files[k].read

\* Candidate k, once examined, yields project options: its content has a
\* mypy section, or it is a mypy.ini or .mypy.ini without one.
Yields(files, k) ==
    /\ Readable(files, k)
    /\ \/ files[k].mypy = "some"
       \/ /\ files[k].mypy = "none"
          /\ CONFIG_PATHS[k] \in {MYPY_INI_NAME, DOT_MYPY_INI_NAME}

\* Candidate k, once examined, makes the function return an error.
Fails(files, k) ==
    /\ files[k].open
    /\ ~files[k].read \/ files[k].mypy = "err"

\* The search has returned Ok(Some(found)).
FoundSome == op = "find_mypy_config_file_in_dir" /\ res.val.ok /\ res.val.val.some

\* C12: the candidates of a directory are examined in the order
\* pyproject.toml, mypy.ini, .mypy.ini, setup.cfg; the search goes past a
\* candidate only if it cannot be opened or is a pyproject.toml or
\* setup.cfg without a mypy section, and stops at the first candidate that
\* yields project options, which becomes config_path with the directory as
\* most_probable_base; a readable mypy.ini or .mypy.ini is never passed (it
\* yields the mypy defaults when it has no mypy section), so setup.cfg is
\* not config_path when one of them can be opened.
C12_FirstYieldingCandidate ==
    op \in {"for_config_name", "after_loop", "find_mypy_config_file_in_dir"} =>
        LET st == cur.val
            n == Len(st.checked)
            done == op = "find_mypy_config_file_in_dir"
        IN  /\ CONFIG_PATHS = <<PYPROJECT_TOML_NAME, MYPY_INI_NAME,
                                DOT_MYPY_INI_NAME, SETUP_CFG_NAME>>
            /\ n <= Len(CONFIG_PATHS)
            /\ \A k \in 1..n : st.checked[k] = join(arg1, CONFIG_PATHS[k])
            \* every candidate that was passed yields nothing
            /\ \A k \in 1..(n - 1) : ~Yields(arg2, k) /\ ~Fails(arg2, k)
            /\ n >= 1 /\ op = "for_config_name"
                  => ~Yields(arg2, n) /\ ~Fails(arg2, n)
            \* the search does not stop early
            /\ op # "for_config_name" /\ n < Len(CONFIG_PATHS)
                  => Yields(arg2, n) \/ Fails(arg2, n)
            /\ done => (res.val.ok <=> ~Fails(arg2, n)
                                        /\ ~(/\ Readable(arg2, PlaceOf(PYPROJECT_TOML_NAME))
                                             /\ arg2[PlaceOf(PYPROJECT_TOML_NAME)].zuban = "err"))
            \* a readable mypy.ini or .mypy.ini is never passed
            /\ \A name \in {MYPY_INI_NAME, DOT_MYPY_INI_NAME} :
                  Readable(arg2, PlaceOf(name)) => n <= PlaceOf(name)
            /\ \A name \in {PYPROJECT_TOML_NAME, SETUP_CFG_NAME} :
                  (/\ op # "for_config_name"
                   /\ n = PlaceOf(name)
                   /\ Readable(arg2, n)
                   /\ arg2[n].mypy = "none")
                      => n = Len(CONFIG_PATHS)
            /\ FoundSome =>
                  LET found == res.val.val.val
                      pyproject == arg2[PlaceOf(PYPROJECT_TOML_NAME)]
                  IN  /\ found.most_probable_base = arg1
                      /\ found.config_path.some
                      /\ IF Yields(arg2, n)
                         THEN /\ found.config_path.val = join(arg1, CONFIG_PATHS[n])
                              /\ found.project_options.origin = "mypy_default"
                                    <=> arg2[n].mypy = "none"
                         ELSE /\ pyproject.zuban = "some"
                              /\ found.config_path.val = join(arg1, PYPROJECT_TOML_NAME)
                              /\ found.project_options.origin = "default_for_mode"
                      /\ (\E name \in {MYPY_INI_NAME, DOT_MYPY_INI_NAME} :
                             arg2[PlaceOf(name)].open)
                            => found.config_path.val # join(arg1, SETUP_CFG_NAME)
            /\ done /\ res.val.ok /\ ~res.val.val.some =>
                  /\ n = Len(CONFIG_PATHS)
                  /\ \A k \in DOMAIN CONFIG_PATHS : ~Yields(arg2, k)

\* A pyproject.toml without a mypy section is passed, a mypy.ini without
\* one stops the search with the mypy defaults, and the setup.cfg with a
\* mypy section behind it is never examined.
C12_Witness ==
    /\ FoundSome
    /\ arg2[PlaceOf(PYPROJECT_TOML_NAME)].open
    /\ arg2[PlaceOf(PYPROJECT_TOML_NAME)].read
    /\ arg2[PlaceOf(PYPROJECT_TOML_NAME)].mypy = "none"
    /\ arg2[PlaceOf(MYPY_INI_NAME)].read
    /\ arg2[PlaceOf(MYPY_INI_NAME)].mypy = "none"
    /\ arg2[PlaceOf(SETUP_CFG_NAME)].mypy = "some"
    /\ Len(arg1) > 1
    /\ Len(cur.val.checked) = PlaceOf(MYPY_INI_NAME)
    /\ res.val.val.val.config_path.val = join(arg1, MYPY_INI_NAME)
    /\ res.val.val.val.project_options.origin = "mypy_default"

\* A setup.cfg with a mypy section is config_path when no earlier
\* candidate can be opened.
C12_WitnessSetupCfg ==
    /\ FoundSome
    /\ Len(cur.val.checked) = Len(CONFIG_PATHS)
    /\ res.val.val.val.config_path.val = join(arg1, SETUP_CFG_NAME)

(***************************************************************************)
(* find_cli_config without an explicit config file (searcher.rs 67-81).    *)
(***************************************************************************)
CliLoopBody_DefaultAtLastDir(current_dir, current, found) ==
    IF ~found.ok THEN [ctl |-> "return", current |-> current, result |-> Err]
    ELSE IF found.val.some
    THEN [ctl |-> "return", current |-> current, result |-> Ok(found.val.val)]
    ELSE LET outer == parent_of_absolute_path(current)
         IN  IF outer.some
             THEN [ctl |-> "continue", current |-> outer.val, result |-> Err]
             ELSE [ctl |-> "return", current |-> current,
                   result |-> Ok(default_config(None, current))]

\* One iteration of the loop, given what find_mypy_config_file_in_dir
\* answers for current; leaving the loop returns the default configuration.
\* result is read only when ctl is "return".
CliLoopBody(current_dir, current, found) ==
    IF ~found.ok THEN [ctl |-> "return", current |-> current, result |-> Err]
    ELSE IF found.val.some
    THEN [ctl |-> "return", current |-> current, result |-> Ok(found.val.val)]
    ELSE LET outer == parent_of_absolute_path(current)
         IN  IF outer.some
             THEN [ctl |-> "continue", current |-> outer.val, result |-> Err]
             ELSE [ctl |-> "return", current |-> current,
                   result |-> Ok(default_config(None, current_dir))]

\* What the search of a directory came to.
Outcome(found) ==
    IF ~found.ok THEN "err" ELSE IF found.val.some THEN "found" ELSE "none"

MaxPresent == 1

\* The states candidate k of a directory can be in.
FilesAt(k) ==
    IF CONFIG_PATHS[k] = PYPROJECT_TOML_NAME THEN TomlFiles ELSE IniFiles

\* The directory contents in which at most n candidates can be opened.
RECURSIVE PresentUpTo(_)
PresentUpTo(n) ==
    IF n = 0 THEN {[k \in DOMAIN CONFIG_PATHS |-> AbsentFile]}
    ELSE LET fewer == PresentUpTo(n - 1)
         IN  fewer \cup UNION {{[f EXCEPT ![k] = x] :
                                    f \in fewer, x \in FilesAt(k)} :
                                k \in DOMAIN CONFIG_PATHS}

\* The contents of a directory on the way up.
CliDirContents == PresentUpTo(MaxPresent)

CliDirs == {unchecked_abs_path(p) : p \in {q \in PathInputs : is_absolute(q)}}

\* arg1 is current_dir; cur holds the local current and the directories
\* searched so far, each with the outcome of its search.
InitCli ==
    /\ target_os \in Targets
    /\ op = "loop"
    /\ arg1 \in CliDirs
    /\ arg2 = << >>
    /\ cur = Some([current |-> arg1, visited |-> << >>])
    /\ res = None

\* current has no config: the loop goes on with its parent.
SearchOuter ==
    /\ op = "loop"
    /\ \E files \in CliDirContents :
          LET found == find_mypy_config_file_in_dir(cur.val.current, files)
              body == CliLoopBody(arg1, cur.val.current, found)
          IN  /\ body.ctl = "continue"
              /\ cur' = Some([current |-> body.current,
                              visited |-> Append(cur.val.visited,
                                  [dir |-> cur.val.current,
                                   outcome |-> Outcome(found)])])
    /\ UNCHANGED <<target_os, op, arg1, arg2, res>>

\* The function returns: a config was found, the search failed, or the
\* loop was left at a path without a parent.
ReturnConfig ==
    /\ op = "loop"
    /\ \E files \in CliDirContents :
          LET found == find_mypy_config_file_in_dir(cur.val.current, files)
              body == CliLoopBody(arg1, cur.val.current, found)
          IN  /\ body.ctl = "return"
              /\ res' = Some(body.result)
              /\ cur' = Some([current |-> body.current,
                              visited |-> Append(cur.val.visited,
                                  [dir |-> cur.val.current,
                                   outcome |-> Outcome(found)])])
    /\ op' = "find_cli_config"
    /\ UNCHANGED <<target_os, arg1, arg2>>

NextCli == SearchOuter \/ ReturnConfig

SpecCli == InitCli /\ [][NextCli]_vars

\* q is the nearest ancestor of p: a strictly shorter prefix of p that
\* names all the components of p but the last.
NearestAncestor(q, p) ==
    /\ Len(q) < Len(p)
    /\ IsStrictPrefix(q, p)
    /\ components(q) = SubSeq(components(p), 1, Len(components(p)) - 1)

\* The directories searched so far are current_dir and its ancestors,
\* nearest first, and all but the last had no config; what is returned
\* follows the outcome of the last one.
C13_SearchedUpwards ==
    LET v == cur.val.visited
        n == Len(v)
    IN  /\ n <= Len(arg1) + 1
        /\ n >= 1 => v[1].dir = arg1
        /\ \A k \in 1..(n - 1) :
              /\ v[k].outcome = "none"
              /\ NearestAncestor(v[k + 1].dir, v[k].dir)
        /\ op = "loop" =>
              /\ \A k \in 1..n : v[k].outcome = "none"
              /\ n = 0 => cur.val.current = arg1
              /\ n >= 1 => NearestAncestor(cur.val.current, v[n].dir)
        /\ op = "find_cli_config" =>
              /\ n >= 1
              /\ v[n].outcome = "err" <=> ~res.val.ok
              /\ v[n].outcome = "found" =>
                    /\ res.val.val.most_probable_base = v[n].dir
                    /\ res.val.val.config_path.some
                    /\ \E k \in DOMAIN CONFIG_PATHS :
                          res.val.val.config_path.val
                              = join(v[n].dir, CONFIG_PATHS[k])
              /\ v[n].outcome = "none" =>
                    /\ IsRootPath(v[n].dir)
                    /\ ~res.val.val.config_path.some
                    /\ res.val.val.most_probable_base = arg1
                    /\ res.val.val.project_options.origin = "default_for_mode"

\* The loop is never stuck: while it runs, whatever the search of current
\* answers, the iteration either goes on with the parent or returns.
C13_LoopCanStep ==
    op = "loop" =>
        \A files \in CliDirContents :
            CliLoopBody(arg1, cur.val.current,
                        find_mypy_config_file_in_dir(cur.val.current, files)).ctl
                \in {"continue", "return"}

\* Every step of the loop replaces current by a strictly shorter path.
C13_StrictlyShorter ==
    cur'.val.current # cur.val.current
        => Len(cur'.val.current) < Len(cur.val.current)

\* C13: without an explicit config file find_cli_config searches
\* current_dir and then its ancestors, nearest first; it returns the config
\* of the first directory that has one, with that directory as
\* most_probable_base, and otherwise, once the root has been searched, the
\* default config without config_path and with current_dir as
\* most_probable_base.  Each step to the parent makes the path strictly
\* shorter, so the loop terminates: it is never stuck, and the number of
\* directories searched is at most the length of current_dir plus one.
C13_UpwardSearchTerminates ==
    /\ [](op \in {"loop", "find_cli_config"} => C13_SearchedUpwards)
    /\ []C13_LoopCanStep
    /\ [][C13_StrictlyShorter]_vars

\* The default config is returned after current_dir, its parent and the
\* root have been searched.
C13_Witness ==
    /\ op = "find_cli_config"
    /\ Len(cur.val.visited) >= 3
    /\ cur.val.visited[Len(cur.val.visited)].outcome = "none"
    /\ cur.val.visited[Len(cur.val.visited)].dir \in Roots
    /\ res.val.ok
    /\ ~res.val.val.config_path.some
    /\ res.val.val.most_probable_base = arg1

\* A config found in the parent of current_dir.
C13_WitnessFound ==
    /\ op = "find_cli_config"
    /\ Len(cur.val.visited) = 2
    /\ cur.val.visited[2].outcome = "found"
    /\ res.val.ok
    /\ res.val.val.most_probable_base = cur.val.visited[2].dir
    /\ res.val.val.most_probable_base # arg1

====
